---------------------------- MODULE Spec2Model ----------------------------
(***************************************************************************)
(* The two lookup-table generators of scripts/: lut_gen.py (sigmoid and    *)
(* its derivative, 1024 packed 32-bit words) and acos_lut_gen.py (inverse  *)
(* cosine, 256 16-bit words).                                              *)
(*                                                                         *)
(* Numbers.  Every sigmoid input the program forms is a multiple of        *)
(* step = 1/64 (exact in binary floating point), so an input x is held as  *)
(* the integer 64*x ("grid units").  A float in [0, 1] is held as the      *)
(* integer floor(v * 2^30) ("Q30").  The cosine value of the arccosine     *)
(* script is held as its numerator over 255.  An angle is held as          *)
(* floor(theta * 2^26) ("Q26").  All intermediate products stay below 2^31.*)
(***************************************************************************)
EXTENDS Integers, Sequences, FiniteSets

VARIABLES
    gen,            \* which script runs: "sigmoid" (lut_gen.py) or "acos"
    pc,             \* position in the script
    i,              \* loop index of the generation loop
    x,              \* lut_gen.py: sampled input, grid units
    sig_fixed,      \* lut_gen.py: quantized sigmoid
    sig_d_fixed,    \* lut_gen.py: quantized derivative
    val,            \* lut_gen.py: packed word
    acos_val,       \* acos_lut_gen.py: val after the clamp, numerator over 255
    theta_q13,      \* acos_lut_gen.py: quantized angle
    f,              \* the output file: [state, lines]
    stdout,         \* messages printed
    stderr,         \* tracebacks printed by the interpreter
    exit_status     \* {} while running, {code} once the process has ended

vars == << gen, pc, i, x, sig_fixed, sig_d_fixed, val, acos_val, theta_q13,
           f, stdout, stderr, exit_status >>

---------------------------------------------------------------------------
(* Bounds of the pure-function specifications.                             *)

\* EvalSpec draws the evaluator's input from -XBound .. XBound grid units
\* (x in [-12, 12]), which covers both saturation thresholds.
XBound == 768

\* PackSpec draws each channel from 0 .. ChanBound and a few named values.
ChanBound == 12

---------------------------------------------------------------------------
(* lut_gen.py: configuration.                                              *)

num_entries == 1024
min_val == -8
max_val == 8

\* Grid units per unit of x: 1/step, step = (max_val - min_val)/num_entries.
XScale == num_entries \div (max_val - min_val)

\* step in grid units.
step == ((max_val - min_val) * XScale) \div num_entries

\* The thresholds of sigmoid's two early returns (-10.0 and 10.0).
SatLow == -10
SatHigh == 10

\* The factor of the Q0.15 conversion (32767.0).
Q15Factor == 32767

\* The mask and the shift of the packing step (0xFFFF, << 16).
PackMask == 65535
PackShift == 16

\* The width of a sigmoid record ("08X").
SigWidth == 8

---------------------------------------------------------------------------
(* acos_lut_gen.py: configuration.                                         *)

acos_entries == 256

\* i / 127.5 - 1.0 = (2*i - 255)/255: the denominator of the cosine value.
AcosDen == 255

\* The fractional bits of the Q2.13 conversion (2**13).
Q13Bits == 13

\* The width of an arccosine record ("04x").
AcosWidth == 4

---------------------------------------------------------------------------
(* The library functions, tabulated at the points the model can reach.     *)

\* math.exp(-x) for x = k/64, k = -640 .. 640, as <<m, s>> with
\* m = floor(exp(-x) * 2^s) < 2^29.  Entry k is at position k + 641.
ExpTab ==
  << <<360881615, 14>>, <<355286664, 14>>, <<349778455, 14>>, <<344355643, 14>>, <<339016903, 14>>,
     <<333760933, 14>>, <<328586450, 14>>, <<323492189, 14>>, <<318476907, 14>>, <<313539381, 14>>,
     <<308678403, 14>>, <<303892788, 14>>, <<299181367, 14>>, <<294542990, 14>>, <<289976524, 14>>,
     <<285480855, 14>>, <<281054884, 14>>, <<276697532, 14>>, <<272407735, 14>>, <<536368889, 15>>,
     <<528053260, 15>>, <<519866553, 15>>, <<511806769, 15>>, <<503871940, 15>>, <<496060130, 15>>,
     <<488369431, 15>>, <<480797964, 15>>, <<473343883, 15>>, <<466005366, 15>>, <<458780623, 15>>,
     <<451667888, 15>>, <<444665427, 15>>, <<437771528, 15>>, <<430984510, 15>>, <<424302714, 15>>,
     <<417724510, 15>>, <<411248292, 15>>, <<404872478, 15>>, <<398595512, 15>>, <<392415862, 15>>,
     <<386332018, 15>>, <<380342495, 15>>, <<374445831, 15>>, <<368640587, 15>>, <<362925344, 15>>,
     <<357298708, 15>>, <<351759305, 15>>, <<346305782, 15>>, <<340936809, 15>>, <<335651074, 15>>,
     <<330447286, 15>>, <<325324176, 15>>, <<320280492, 15>>, <<315315003, 15>>, <<310426497, 15>>,
     <<305613780, 15>>, <<300875678, 15>>, <<296211033, 15>>, <<291618706, 15>>, <<287097577, 15>>,
     <<282646542, 15>>, <<278264513, 15>>, <<273950422, 15>>, <<269703214, 15>>, <<531043708, 16>>,
     <<522810638, 16>>, <<514705211, 16>>, <<506725446, 16>>, <<498869396, 16>>, <<491135143, 16>>,
     <<483520798, 16>>, <<476024503, 16>>, <<468644427, 16>>, <<461378769, 16>>, <<454225754, 16>>,
     <<447183636, 16>>, <<440250697, 16>>, <<433425242, 16>>, <<426705607, 16>>, <<420090149, 16>>,
     <<413577255, 16>>, <<407165334, 16>>, <<400852821, 16>>, <<394638174, 16>>, <<388519876, 16>>,
     <<382496434, 16>>, <<376566376, 16>>, <<370728256, 16>>, <<364980647, 16>>, <<359322146, 16>>,
     <<353751373, 16>>, <<348266966, 16>>, <<342867587, 16>>, <<337551918, 16>>, <<332318661, 16>>,
     <<327166537, 16>>, <<322094290, 16>>, <<317100681, 16>>, <<312184491, 16>>, <<307344519, 16>>,
     <<302579584, 16>>, <<297888522, 16>>, <<293270189, 16>>, <<288723456, 16>>, <<284247213, 16>>,
     <<279840369, 16>>, <<275501846, 16>>, <<271230586, 16>>, <<534051091, 17>>, <<525771396, 17>>,
     <<517620066, 17>>, <<509595111, 17>>, <<501694571, 17>>, <<493916518, 17>>, <<486259052, 17>>,
     <<478720304, 17>>, <<471298434, 17>>, <<463991629, 17>>, <<456798105, 17>>, <<449716107, 17>>,
     <<442743905, 17>>, <<435879797, 17>>, <<429122107, 17>>, <<422469185, 17>>, <<415919408, 17>>,
     <<409471175, 17>>, <<403122913, 17>>, <<396873071, 17>>, <<390720125, 17>>, <<384662571, 17>>,
     <<378698930, 17>>, <<372827748, 17>>, <<367047589, 17>>, <<361357044, 17>>, <<355754722, 17>>,
     <<350239256, 17>>, <<344809300, 17>>, <<339463527, 17>>, <<334200633, 17>>, <<329019332, 17>>,
     <<323918360, 17>>, <<318896472, 17>>, <<313952440, 17>>, <<309085059, 17>>, <<304293139, 17>>,
     <<299575511, 17>>, <<294931023, 17>>, <<290358542, 17>>, <<285856950, 17>>, <<281425148, 17>>,
     <<277062056, 17>>, <<272766607, 17>>, <<268537753, 17>>, <<528748922, 18>>, <<520551430, 18>>,
     <<512481028, 18>>, <<504535746, 18>>, <<496713644, 18>>, <<489012813, 18>>, <<481431372, 18>>,
     <<473967470, 18>>, <<466619286, 18>>, <<459385024, 18>>, <<452262919, 18>>, <<445251233, 18>>,
     <<438348252, 18>>, <<431552293, 18>>, <<424861694, 18>>, <<418274824, 18>>, <<411790074, 18>>,
     <<405405861, 18>>, <<399120626, 18>>, <<392932834, 18>>, <<386840975, 18>>, <<380843561, 18>>,
     <<374939129, 18>>, <<369126237, 18>>, <<363403465, 18>>, <<357769416, 18>>, <<352222716, 18>>,
     <<346762009, 18>>, <<341385962, 18>>, <<336093263, 18>>, <<330882620, 18>>, <<325752761, 18>>,
     <<320702432, 18>>, <<315730402, 18>>, <<310835456, 18>>, <<306016399, 18>>, <<301272054, 18>>,
     <<296601264, 18>>, <<292002887, 18>>, <<287475802, 18>>, <<283018903, 18>>, <<278631102, 18>>,
     <<274311327, 18>>, <<270058524, 18>>, <<531743309, 19>>, <<523499393, 19>>, <<515383288, 19>>,
     <<507393010, 19>>, <<499526611, 19>>, <<491782169, 19>>, <<484157793, 19>>, <<476651622, 19>>,
     <<469261823, 19>>, <<461986593, 19>>, <<454824155, 19>>, <<447772760, 19>>, <<440830687, 19>>,
     <<433996240, 19>>, <<427267752, 19>>, <<420643580, 19>>, <<414122106, 19>>, <<407701737, 19>>,
     <<401380908, 19>>, <<395158074, 19>>, <<389031716, 19>>, <<383000338, 19>>, <<377062468, 19>>,
     <<371216656, 19>>, <<365461475, 19>>, <<359795520, 19>>, <<354217408, 19>>, <<348725776, 19>>,
     <<343319284, 19>>, <<337996612, 19>>, <<332756460, 19>>, <<327597549, 19>>, <<322518620, 19>>,
     <<317518432, 19>>, <<312595765, 19>>, <<307749417, 19>>, <<302978205, 19>>, <<298280963, 19>>,
     <<293656545, 19>>, <<289103822, 19>>, <<284621683, 19>>, <<280209033, 19>>, <<275864795, 19>>,
     <<271587907, 19>>, <<534754655, 20>>, <<526464052, 20>>, <<518301984, 20>>, <<510266456, 20>>,
     <<502355508, 20>>, <<494567208, 20>>, <<486899654, 20>>, <<479350974, 20>>, <<471919326, 20>>,
     <<464602895, 20>>, <<457399895, 20>>, <<450308567, 20>>, <<443327180, 20>>, <<436454029, 20>>,
     <<429687436, 20>>, <<423025750, 20>>, <<416467344, 20>>, <<410010616, 20>>, <<403653991, 20>>,
     <<397395915, 20>>, <<391234863, 20>>, <<385169329, 20>>, <<379197832, 20>>, <<373318914, 20>>,
     <<367531141, 20>>, <<361833099, 20>>, <<356223396, 20>>, <<350700664, 20>>, <<345263555, 20>>,
     <<339910739, 20>>, <<334640912, 20>>, <<329452785, 20>>, <<324345093, 20>>, <<319316589, 20>>,
     <<314366044, 20>>, <<309492250, 20>>, <<304694017, 20>>, <<299970175, 20>>, <<295319568, 20>>,
     <<290741063, 20>>, <<286233540, 20>>, <<281795900, 20>>, <<277427060, 20>>, <<273125952, 20>>,
     <<268891527, 20>>, <<529445500, 21>>, <<521237209, 21>>, <<513156175, 21>>, <<505200426, 21>>,
     <<497368019, 21>>, <<489657042, 21>>, <<482065614, 21>>, <<474591879, 21>>, <<467234014, 21>>,
     <<459990222, 21>>, <<452858735, 21>>, <<445837811, 21>>, <<438925736, 21>>, <<432120823, 21>>,
     <<425421411, 21>>, <<418825863, 21>>, <<412332570, 21>>, <<405939946, 21>>, <<399646431, 21>>,
     <<393450487, 21>>, <<387350602, 21>>, <<381345288, 21>>, <<375433077, 21>>, <<369612527, 21>>,
     <<363882216, 21>>, <<358240745, 21>>, <<352686737, 21>>, <<347218836, 21>>, <<341835707, 21>>,
     <<336536035, 21>>, <<331318528, 21>>, <<326181910, 21>>, <<321124928, 21>>, <<316146348, 21>>,
     <<311244953, 21>>, <<306419547, 21>>, <<301668952, 21>>, <<296992009, 21>>, <<292387574, 21>>,
     <<287854525, 21>>, <<283391755, 21>>, <<278998173, 21>>, <<274672707, 21>>, <<270414301, 21>>,
     <<532443833, 22>>, <<524189056, 22>>, <<516062258, 22>>, <<508061454, 22>>, <<500184692, 22>>,
     <<492430047, 22>>, <<484795626, 22>>, <<477279567, 22>>, <<469880033, 22>>, <<462595218, 22>>,
     <<455423344, 22>>, <<448362660, 22>>, <<441411441, 22>>, <<434567991, 22>>, <<427830639, 22>>,
     <<421197739, 22>>, <<414667674, 22>>, <<408238847, 22>>, <<401909691, 22>>, <<395678658, 22>>,
     <<389544229, 22>>, <<383504906, 22>>, <<377559213, 22>>, <<371705700, 22>>, <<365942938, 22>>,
     <<360269518, 22>>, <<354684057, 22>>, <<349185190, 22>>, <<343771576, 22>>, <<338441891, 22>>,
     <<333194836, 22>>, <<328029129, 22>>, <<322943509, 22>>, <<317936734, 22>>, <<313007582, 22>>,
     <<308154849, 22>>, <<303377351, 22>>, <<298673921, 22>>, <<294043411, 22>>, <<289484690, 22>>,
     <<284996646, 22>>, <<280578183, 22>>, <<276228221, 22>>, <<271945700, 22>>, <<535459145, 23>>,
     <<527157621, 23>>, <<518984799, 23>>, <<510938686, 23>>, <<503017315, 23>>, <<495218755, 23>>,
     <<487541100, 23>>, <<479982476, 23>>, <<472541037, 23>>, <<465214967, 23>>, <<458002478, 23>>,
     <<450901807, 23>>, <<443911223, 23>>, <<437029017, 23>>, <<430253510, 23>>, <<423583048, 23>>,
     <<417016001, 23>>, <<410550768, 23>>, <<404185768, 23>>, <<397919448, 23>>, <<391750279, 23>>,
     <<385676754, 23>>, <<379697390, 23>>, <<373810728, 23>>, <<368015330, 23>>, <<362309781, 23>>,
     <<356692688, 23>>, <<351162681, 23>>, <<345718408, 23>>, <<340358541, 23>>, <<335081771, 23>>,
     <<329886809, 23>>, <<324772388, 23>>, <<319737259, 23>>, <<314780192, 23>>, <<309899978, 23>>,
     <<305095424, 23>>, <<300365358, 23>>, <<295708625, 23>>, <<291124087, 23>>, <<286610627, 23>>,
     <<282167141, 23>>, <<277792545, 23>>, <<273485770, 23>>, <<269245767, 23>>, <<530142996, 24>>,
     <<521923891, 24>>, <<513832211, 24>>, <<505865981, 24>>, <<498023256, 24>>, <<490302121, 24>>,
     <<482700691, 24>>, <<475217111, 24>>, <<467849552, 24>>, <<460596217, 24>>, <<453455335, 24>>,
     <<446425161, 24>>, <<439503981, 24>>, <<432690103, 24>>, <<425981865, 24>>, <<419377628, 24>>,
     <<412875781, 24>>, <<406474735, 24>>, <<400172928, 24>>, <<393968822, 24>>, <<387860902, 24>>,
     <<381847676, 24>>, <<375927676, 24>>, <<370099458, 24>>, <<364361597, 24>>, <<358712694, 24>>,
     <<353151370, 24>>, <<347676265, 24>>, <<342286044, 24>>, <<336979391, 24>>, <<331755010, 24>>,
     <<326611625, 24>>, <<321547981, 24>>, <<316562842, 24>>, <<311654990, 24>>, <<306823227, 24>>,
     <<302066374, 24>>, <<297383269, 24>>, <<292772768, 24>>, <<288233747, 24>>, <<283765097, 24>>,
     <<279365727, 24>>, <<275034563, 24>>, <<270770547, 24>>, <<533145279, 25>>, <<524879627, 25>>,
     <<516742123, 25>>, <<508730779, 25>>, <<500843639, 25>>, <<493078778, 25>>, <<485434300, 25>>,
     <<477908339, 25>>, <<470499057, 25>>, <<463204645, 25>>, <<456023323, 25>>, <<448953337, 25>>,
     <<441992960, 25>>, <<435140495, 25>>, <<428394266, 25>>, <<421752629, 25>>, <<415213960, 25>>,
     <<408776665, 25>>, <<402439170, 25>>, <<396199929, 25>>, <<390057418, 25>>, <<384010139, 25>>,
     <<378056613, 25>>, <<372195389, 25>>, <<366425034, 25>>, <<360744140, 25>>, <<355151321, 25>>,
     <<349645210, 25>>, <<344224463, 25>>, <<338887758, 25>>, <<333633790, 25>>, <<328461278, 25>>,
     <<323368957, 25>>, <<318355586, 25>>, <<313419941, 25>>, <<308560815, 25>>, <<303777023, 25>>,
     <<299067397, 25>>, <<294430786, 25>>, <<289866060, 25>>, <<285372103, 25>>, <<280947819, 25>>,
     <<276592127, 25>>, <<272303963, 25>>, <<536164564, 26>>, <<527852103, 26>>, <<519668514, 26>>,
     <<511611801, 26>>, <<503679995, 26>>, <<495871160, 26>>, <<488183391, 26>>, <<480614809, 26>>,
     <<473163567, 26>>, <<465827845, 26>>, <<458605854, 26>>, <<451495829, 26>>, <<444496035, 26>>,
     <<437604763, 26>>, <<430820330, 26>>, <<424141080, 26>>, <<417565382, 26>>, <<411091631, 26>>,
     <<404718246, 26>>, <<398443671, 26>>, <<392266374, 26>>, <<386184848, 26>>, <<380197607, 26>>,
     <<374303189, 26>>, <<368500156, 26>>, <<362787091, 26>>, <<357162598, 26>>, <<351625305, 26>>,
     <<346173860, 26>>, <<340806932, 26>>, <<335523210, 26>>, <<330321405, 26>>, <<325200246, 26>>,
     <<320158484, 26>>, <<315194887, 26>>, <<310308243, 26>>, <<305497359, 26>>, <<300761062, 26>>,
     <<296098194, 26>>, <<291507617, 26>>, <<286988210, 26>>, <<282538870, 26>>, <<278158511, 26>>,
     <<273846063, 26>>, <<269600473, 26>>, <<530841411, 27>>, <<522611478, 27>>, <<514509138, 27>>,
     <<506532413, 27>>, <<498679356, 27>>, <<490948049, 27>>, <<483336605, 27>>, <<475843166, 27>>,
     <<468465901, 27>>, <<461203011, 27>>, <<454052721, 27>>, <<447013286, 27>>, <<440082987, 27>>,
     <<433260133, 27>>, <<426543057, 27>>, <<419930120, 27>>, <<413419707, 27>>, <<407010228, 27>>,
     <<400700120, 27>>, <<394487840, 27>>, <<388371873, 27>>, <<382350725, 27>>, <<376422927, 27>>,
     <<370587030, 27>>, <<364841611, 27>>, <<359185266, 27>>, <<353616614, 27>>, <<348134297, 27>>,
     <<342736975, 27>>, <<337423331, 27>>, <<332192067, 27>>, <<327041906, 27>>, <<321971591, 27>>,
     <<316979884, 27>>, <<312065567, 27>>, <<307227439, 27>>, <<302464319, 27>>, <<297775044, 27>>,
     <<293158470, 27>>, <<288613469, 27>>, <<284138932, 27>>, <<279733766, 27>>, <<275396896, 27>>,
     <<271127263, 27>>, <<533847649, 28>>, <<525571108, 28>>, <<517422884, 28>>, <<509400985, 28>>,
     <<501503455, 28>>, <<493728365, 28>>, <<486073816, 28>>, <<478537940, 28>>, <<471118897, 28>>,
     <<463814875, 28>>, <<456624092, 28>>, <<449544792, 28>>, <<442575246, 28>>, <<435713752, 28>>,
     <<428958637, 28>>, <<422308250, 28>>, <<415760967, 28>>, <<409315191, 28>>, <<402969347, 28>>,
     <<396721886, 28>>, <<390571283, 28>>, <<384516037, 28>>, <<378554668, 28>>, <<372685722, 28>>,
     <<366907766, 28>>, <<361219388, 28>>, <<355619200, 28>>, <<350105836, 28>>, <<344677948, 28>>,
     <<339334211, 28>>, <<334073322, 28>>, <<328893995, 28>>, <<323794967, 28>>, <<318774991, 28>>,
     <<313832843, 28>>, <<308967315, 28>>, <<304177221, 28>>, <<299461390, 28>>, <<294818672, 28>>,
     <<290247932, 28>>, <<285748055, 28>>, <<281317942, 28>>, <<276956512, 28>>, <<272662699, 28>>,
     <<268435456, 28>>, <<528547499, 29>>, <<520353130, 29>>, <<512285802, 29>>, <<504343547, 29>>,
     <<496524425, 29>>, <<488826528, 29>>, <<481247975, 29>>, <<473786916, 29>>, <<466441531, 29>>,
     <<459210025, 29>>, <<452090634, 29>>, <<445081618, 29>>, <<438181267, 29>>, <<431387896, 29>>,
     <<424699847, 29>>, <<418115486, 29>>, <<411633206, 29>>, <<405251425, 29>>, <<398968584, 29>>,
     <<392783149, 29>>, <<386693611, 29>>, <<380698482, 29>>, <<374796299, 29>>, <<368985621, 29>>,
     <<363265030, 29>>, <<357633127, 29>>, <<352088540, 29>>, <<346629913, 29>>, <<341255914, 29>>,
     <<335965231, 29>>, <<330756573, 29>>, <<325628668, 29>>, <<320580263, 29>>, <<315610127, 29>>,
     <<310717046, 29>>, <<305899824, 29>>, <<301157287, 29>>, <<296488276, 29>>, <<291891651, 29>>,
     <<287366291, 29>>, <<282911089, 29>>, <<278524959, 29>>, <<274206830, 29>>, <<269955647, 29>>,
     <<265770373, 29>>, <<261649985, 29>>, <<257593478, 29>>, <<253599861, 29>>, <<249668160, 29>>,
     <<245797414, 29>>, <<241986678, 29>>, <<238235023, 29>>, <<234541531, 29>>, <<230905301, 29>>,
     <<227325447, 29>>, <<223801092, 29>>, <<220331378, 29>>, <<216915456, 29>>, <<213552494, 29>>,
     <<210241669, 29>>, <<206982174, 29>>, <<203773213, 29>>, <<200614002, 29>>, <<197503771, 29>>,
     <<194441758, 29>>, <<191427218, 29>>, <<188459414, 29>>, <<185537622, 29>>, <<182661128, 29>>,
     <<179829229, 29>>, <<177041236, 29>>, <<174296466, 29>>, <<171594249, 29>>, <<168933927, 29>>,
     <<166314849, 29>>, <<163736377, 29>>, <<161197879, 29>>, <<158698738, 29>>, <<156238342, 29>>,
     <<153816091, 29>>, <<151431394, 29>>, <<149083667, 29>>, <<146772339, 29>>, <<144496845, 29>>,
     <<142256629, 29>>, <<140051145, 29>>, <<137879853, 29>>, <<135742224, 29>>, <<133637736, 29>>,
     <<131565875, 29>>, <<129526135, 29>>, <<127518018, 29>>, <<125541035, 29>>, <<123594701, 29>>,
     <<121678543, 29>>, <<119792092, 29>>, <<117934888, 29>>, <<116106477, 29>>, <<114306413, 29>>,
     <<112534256, 29>>, <<110789574, 29>>, <<109071941, 29>>, <<107380937, 29>>, <<105716150, 29>>,
     <<104077173, 29>>, <<102463606, 29>>, <<100875055, 29>>, <<99311132, 29>>, <<97771456, 29>>,
     <<96255650, 29>>, <<94763344, 29>>, <<93294175, 29>>, <<91847783, 29>>, <<90423815, 29>>,
     <<89021924, 29>>, <<87641767, 29>>, <<86283007, 29>>, <<84945313, 29>>, <<83628358, 29>>,
     <<82331820, 29>>, <<81055384, 29>>, <<79798737, 29>>, <<78561572, 29>>, <<77343588, 29>>,
     <<76144486, 29>>, <<74963976, 29>>, <<73801767, 29>>, <<72657576, 29>>, <<71531125, 29>>,
     <<70422138, 29>>, <<69330344, 29>>, <<68255476, 29>>, <<67197273, 29>>, <<66155476, 29>>,
     <<65129831, 29>>, <<64120086, 29>>, <<63125996, 29>>, <<62147318, 29>>, <<61183814, 29>>,
     <<60235246, 29>>, <<59301385, 29>>, <<58382003, 29>>, <<57476874, 29>>, <<56585777, 29>>,
     <<55708496, 29>>, <<54844816, 29>>, <<53994526, 29>>, <<53157418, 29>>, <<52333289, 29>>,
     <<51521937, 29>>, <<50723163, 29>>, <<49936773, 29>>, <<49162575, 29>>, <<48400380, 29>>,
     <<47650002, 29>>, <<46911257, 29>>, <<46183965, 29>>, <<45467949, 29>>, <<44763034, 29>>,
     <<44069048, 29>>, <<43385820, 29>>, <<42713186, 29>>, <<42050979, 29>>, <<41399039, 29>>,
     <<40757206, 29>>, <<40125324, 29>>, <<39503239, 29>>, <<38890798, 29>>, <<38287852, 29>>,
     <<37694254, 29>>, <<37109859, 29>>, <<36534524, 29>>, <<35968108, 29>>, <<35410474, 29>>,
     <<34861486, 29>>, <<34321009, 29>>, <<33788911, 29>>, <<33265062, 29>>, <<32749335, 29>>,
     <<32241604, 29>>, <<31741744, 29>>, <<31249634, 29>>, <<30765153, 29>>, <<30288184, 29>>,
     <<29818609, 29>>, <<29356314, 29>>, <<28901187, 29>>, <<28453115, 29>>, <<28011991, 29>>,
     <<27577705, 29>>, <<27150152, 29>>, <<26729228, 29>>, <<26314830, 29>>, <<25906856, 29>>,
     <<25505208, 29>>, <<25109786, 29>>, <<24720495, 29>>, <<24337239, 29>>, <<23959925, 29>>,
     <<23588461, 29>>, <<23222756, 29>>, <<22862720, 29>>, <<22508267, 29>>, <<22159308, 29>>,
     <<21815760, 29>>, <<21477538, 29>>, <<21144560, 29>>, <<20816744, 29>>, <<20494010, 29>>,
     <<20176280, 29>>, <<19863476, 29>>, <<19555521, 29>>, <<19252341, 29>>, <<18953861, 29>>,
     <<18660009, 29>>, <<18370712, 29>>, <<18085900, 29>>, <<17805504, 29>>, <<17529456, 29>>,
     <<17257687, 29>>, <<16990131, 29>>, <<16726723, 29>>, <<16467400, 29>>, <<16212096, 29>>,
     <<15960751, 29>>, <<15713302, 29>>, <<15469690, 29>>, <<15229855, 29>>, <<14993738, 29>>,
     <<14761282, 29>>, <<14532429, 29>>, <<14307125, 29>>, <<14085313, 29>>, <<13866941, 29>>,
     <<13651954, 29>>, <<13440300, 29>>, <<13231927, 29>>, <<13026785, 29>>, <<12824824, 29>>,
     <<12625993, 29>>, <<12430245, 29>>, <<12237532, 29>>, <<12047807, 29>>, <<11861023, 29>>,
     <<11677135, 29>>, <<11496098, 29>>, <<11317867, 29>>, <<11142400, 29>>, <<10969653, 29>>,
     <<10799584, 29>>, <<10632152, 29>>, <<10467316, 29>>, <<10305035, 29>>, <<10145270, 29>>,
     <<9987983, 29>>, <<9833133, 29>>, <<9680685, 29>>, <<9530600, 29>>, <<9382841, 29>>,
     <<9237374, 29>>, <<9094162, 29>>, <<8953170, 29>>, <<8814364, 29>>, <<8677710, 29>>,
     <<8543174, 29>>, <<8410725, 29>>, <<8280328, 29>>, <<8151954, 29>>, <<8025569, 29>>,
     <<7901144, 29>>, <<7778649, 29>>, <<7658052, 29>>, <<7539325, 29>>, <<7422438, 29>>,
     <<7307364, 29>>, <<7194074, 29>>, <<7082540, 29>>, <<6972735, 29>>, <<6864633, 29>>,
     <<6758207, 29>>, <<6653431, 29>>, <<6550279, 29>>, <<6448726, 29>>, <<6348748, 29>>,
     <<6250320, 29>>, <<6153417, 29>>, <<6058017, 29>>, <<5964097, 29>>, <<5871632, 29>>,
     <<5780601, 29>>, <<5690981, 29>>, <<5602750, 29>>, <<5515888, 29>>, <<5430372, 29>>,
     <<5346182, 29>>, <<5263297, 29>>, <<5181697, 29>>, <<5101362, 29>>, <<5022273, 29>>,
     <<4944410, 29>>, <<4867754, 29>>, <<4792286, 29>>, <<4717989, 29>>, <<4644843, 29>>,
     <<4572831, 29>>, <<4501936, 29>>, <<4432140, 29>>, <<4363426, 29>>, <<4295777, 29>>,
     <<4229178, 29>>, <<4163610, 29>>, <<4099059, 29>>, <<4035509, 29>>, <<3972945, 29>>,
     <<3911350, 29>>, <<3850710, 29>>, <<3791010, 29>>, <<3732236, 29>>, <<3674373, 29>>,
     <<3617407, 29>>, <<3561325, 29>>, <<3506111, 29>>, <<3451754, 29>>, <<3398240, 29>>,
     <<3345555, 29>>, <<3293687, 29>>, <<3242623, 29>>, <<3192351, 29>>, <<3142858, 29>>,
     <<3094132, 29>>, <<3046162, 29>>, <<2998936, 29>>, <<2952442, 29>>, <<2906668, 29>>,
     <<2861605, 29>>, <<2817239, 29>>, <<2773562, 29>>, <<2730562, 29>>, <<2688229, 29>>,
     <<2646552, 29>>, <<2605521, 29>>, <<2565126, 29>>, <<2525357, 29>>, <<2486205, 29>>,
     <<2447660, 29>>, <<2409713, 29>>, <<2372353, 29>>, <<2335573, 29>>, <<2299364, 29>>,
     <<2263715, 29>>, <<2228620, 29>>, <<2194068, 29>>, <<2160052, 29>>, <<2126564, 29>>,
     <<2093594, 29>>, <<2061136, 29>>, <<2029181, 29>>, <<1997722, 29>>, <<1966750, 29>>,
     <<1936258, 29>>, <<1906239, 29>>, <<1876686, 29>>, <<1847591, 29>>, <<1818946, 29>>,
     <<1790746, 29>>, <<1762983, 29>>, <<1735651, 29>>, <<1708742, 29>>, <<1682250, 29>>,
     <<1656169, 29>>, <<1630493, 29>>, <<1605214, 29>>, <<1580328, 29>>, <<1555827, 29>>,
     <<1531706, 29>>, <<1507959, 29>>, <<1484581, 29>>, <<1461564, 29>>, <<1438905, 29>>,
     <<1416597, 29>>, <<1394634, 29>>, <<1373013, 29>>, <<1351726, 29>>, <<1330769, 29>>,
     <<1310138, 29>>, <<1289826, 29>>, <<1269829, 29>>, <<1250142, 29>>, <<1230761, 29>>,
     <<1211679, 29>>, <<1192894, 29>>, <<1174400, 29>>, <<1156192, 29>>, <<1138267, 29>>,
     <<1120620, 29>>, <<1103247, 29>>, <<1086142, 29>>, <<1069303, 29>>, <<1052725, 29>>,
     <<1036404, 29>>, <<1020336, 29>>, <<1004517, 29>>, <<988944, 29>>, <<973612, 29>>,
     <<958517, 29>>, <<943657, 29>>, <<929027, 29>>, <<914623, 29>>, <<900443, 29>>,
     <<886483, 29>>, <<872740, 29>>, <<859209, 29>>, <<845888, 29>>, <<832774, 29>>,
     <<819863, 29>>, <<807152, 29>>, <<794639, 29>>, <<782319, 29>>, <<770190, 29>>,
     <<758249, 29>>, <<746494, 29>>, <<734920, 29>>, <<723527, 29>>, <<712309, 29>>,
     <<701266, 29>>, <<690394, 29>>, <<679690, 29>>, <<669153, 29>>, <<658778, 29>>,
     <<648565, 29>>, <<638510, 29>>, <<628611, 29>>, <<618865, 29>>, <<609270, 29>>,
     <<599825, 29>>, <<590525, 29>>, <<581370, 29>>, <<572357, 29>>, <<563483, 29>>,
     <<554747, 29>>, <<546146, 29>>, <<537679, 29>>, <<529343, 29>>, <<521136, 29>>,
     <<513057, 29>>, <<505103, 29>>, <<497272, 29>>, <<489562, 29>>, <<481972, 29>>,
     <<474500, 29>>, <<467144, 29>>, <<459901, 29>>, <<452771, 29>>, <<445752, 29>>,
     <<438841, 29>>, <<432037, 29>>, <<425339, 29>>, <<418745, 29>>, <<412253, 29>>,
     <<405861, 29>>, <<399569, 29>>, <<393374, 29>>, <<387276, 29>>, <<381271, 29>>,
     <<375360, 29>>, <<369541, 29>>, <<363812, 29>>, <<358171, 29>>, <<352618, 29>>,
     <<347152, 29>>, <<341769, 29>>, <<336471, 29>>, <<331254, 29>>, <<326119, 29>>,
     <<321063, 29>>, <<316085, 29>>, <<311185, 29>>, <<306360, 29>>, <<301610, 29>>,
     <<296934, 29>>, <<292331, 29>>, <<287799, 29>>, <<283337, 29>>, <<278944, 29>>,
     <<274619, 29>>, <<270362, 29>>, <<266170, 29>>, <<262044, 29>>, <<257981, 29>>,
     <<253981, 29>>, <<250044, 29>>, <<246167, 29>>, <<242351, 29>>, <<238593, 29>>,
     <<234894, 29>>, <<231253, 29>>, <<227667, 29>>, <<224138, 29>>, <<220663, 29>>,
     <<217242, 29>>, <<213874, 29>>, <<210558, 29>>, <<207293, 29>>, <<204080, 29>>,
     <<200916, 29>>, <<197801, 29>>, <<194734, 29>>, <<191715, 29>>, <<188743, 29>>,
     <<185817, 29>>, <<182936, 29>>, <<180100, 29>>, <<177307, 29>>, <<174559, 29>>,
     <<171852, 29>>, <<169188, 29>>, <<166565, 29>>, <<163983, 29>>, <<161440, 29>>,
     <<158937, 29>>, <<156473, 29>>, <<154047, 29>>, <<151659, 29>>, <<149308, 29>>,
     <<146993, 29>>, <<144714, 29>>, <<142470, 29>>, <<140262, 29>>, <<138087, 29>>,
     <<135946, 29>>, <<133839, 29>>, <<131764, 29>>, <<129721, 29>>, <<127710, 29>>,
     <<125730, 29>>, <<123780, 29>>, <<121861, 29>>, <<119972, 29>>, <<118112, 29>>,
     <<116281, 29>>, <<114478, 29>>, <<112703, 29>>, <<110956, 29>>, <<109236, 29>>,
     <<107542, 29>>, <<105875, 29>>, <<104233, 29>>, <<102617, 29>>, <<101027, 29>>,
     <<99460, 29>>, <<97918, 29>>, <<96400, 29>>, <<94906, 29>>, <<93434, 29>>,
     <<91986, 29>>, <<90560, 29>>, <<89156, 29>>, <<87773, 29>>, <<86412, 29>>,
     <<85073, 29>>, <<83754, 29>>, <<82455, 29>>, <<81177, 29>>, <<79918, 29>>,
     <<78679, 29>>, <<77460, 29>>, <<76259, 29>>, <<75076, 29>>, <<73912, 29>>,
     <<72767, 29>>, <<71638, 29>>, <<70528, 29>>, <<69434, 29>>, <<68358, 29>>,
     <<67298, 29>>, <<66255, 29>>, <<65227, 29>>, <<64216, 29>>, <<63221, 29>>,
     <<62240, 29>>, <<61275, 29>>, <<60325, 29>>, <<59390, 29>>, <<58469, 29>>,
     <<57563, 29>>, <<56671, 29>>, <<55792, 29>>, <<54927, 29>>, <<54075, 29>>,
     <<53237, 29>>, <<52412, 29>>, <<51599, 29>>, <<50799, 29>>, <<50011, 29>>,
     <<49236, 29>>, <<48473, 29>>, <<47721, 29>>, <<46981, 29>>, <<46253, 29>>,
     <<45536, 29>>, <<44830, 29>>, <<44135, 29>>, <<43451, 29>>, <<42777, 29>>,
     <<42114, 29>>, <<41461, 29>>, <<40818, 29>>, <<40185, 29>>, <<39562, 29>>,
     <<38949, 29>>, <<38345, 29>>, <<37751, 29>>, <<37165, 29>>, <<36589, 29>>,
     <<36022, 29>>, <<35463, 29>>, <<34914, 29>>, <<34372, 29>>, <<33839, 29>>,
     <<33315, 29>>, <<32798, 29>>, <<32290, 29>>, <<31789, 29>>, <<31296, 29>>,
     <<30811, 29>>, <<30333, 29>>, <<29863, 29>>, <<29400, 29>>, <<28944, 29>>,
     <<28495, 29>>, <<28054, 29>>, <<27619, 29>>, <<27191, 29>>, <<26769, 29>>,
     <<26354, 29>>, <<25945, 29>>, <<25543, 29>>, <<25147, 29>>, <<24757, 29>>,
     <<24373, 29>> >>

\* math.acos(n/255) for n = 2*i - 255, i = 0 .. 255, as floor(acos * 2^26).
\* Entry i is at position i + 1.
AcosTab ==
  << 210828714, 202418170, 198926599, 196242060, 193974372, 191972505, 190159049, 188488049,
     186929578, 185462862, 184072784, 182747937, 181479465, 180260326, 179084816, 177948234,
     176846655, 175776759, 174735710, 173721060, 172730681, 171762711, 170815503, 169887601,
     168977701, 168084636, 167207357, 166344911, 165496435, 164661142, 163838312, 163027285,
     162227453, 161438257, 160659177, 159889734, 159129481, 158378001, 157634908, 156899837,
     156172450, 155452427, 154739469, 154033294, 153333634, 152640240, 151952874, 151271311,
     150595338, 149924753, 149259363, 148598985, 147943446, 147292579, 146646226, 146004236,
     145366463, 144732770, 144103023, 143477095, 142854864, 142236213, 141621029, 141009204,
     140400632, 139795214, 139192852, 138593453, 137996926, 137403184, 136812143, 136223720,
     135637836, 135054416, 134473384, 133894668, 133318198, 132743907, 132171728, 131601597,
     131033451, 130467230, 129902874, 129340325, 128779528, 128220426, 127662966, 127107095,
     126552763, 125999919, 125448513, 124898499, 124349828, 123802454, 123256333, 122711419,
     122167669, 121625040, 121083490, 120542977, 120003461, 119464901, 118927258, 118390493,
     117854567, 117319442, 116785082, 116251449, 115718505, 115186216, 114654546, 114123459,
     113592919, 113062893, 112533345, 112004243, 111475550, 110947235, 110419263, 109891601,
     109364217, 108837076, 108310147, 107783397, 107256792, 106730301, 106203891, 105677529,
     105151184, 104624822, 104098412, 103571921, 103045316, 102518566, 101991637, 101464496,
     100937112, 100409450, 99881478, 99353163, 98824471, 98295368, 97765820, 97235794,
     96705255, 96174167, 95642497, 95110208, 94577265, 94043631, 93509271, 92974146,
     92438220, 91901455, 91363812, 90825252, 90285736, 89745223, 89203673, 88661044,
     88117294, 87572380, 87026259, 86478885, 85930214, 85380200, 84828794, 84275950,
     83721618, 83165748, 82608288, 82049186, 81488388, 80925839, 80361483, 79795262,
     79227116, 78656985, 78084806, 77510515, 76934045, 76355330, 75774297, 75190877,
     74604993, 74016570, 73425529, 72831787, 72235260, 71635861, 71033499, 70428081,
     69819509, 69207684, 68592500, 67973849, 67351618, 66725690, 66095943, 65462250,
     64824477, 64182487, 63536134, 62885267, 62229728, 61569351, 60903960, 60233375,
     59557402, 58875839, 58188473, 57495079, 56795420, 56089244, 55376286, 54656263,
     53928876, 53193805, 52450712, 51699232, 50938979, 50169536, 49390456, 48601260,
     47801429, 46990402, 46167572, 45332278, 44483802, 43621356, 42744077, 41851013,
     40941113, 40013210, 39066003, 38098032, 37107654, 36093004, 35051954, 33982058,
     32880479, 31743898, 30568387, 29349249, 28080776, 26755929, 25365851, 23899135,
     22340664, 20669664, 18856208, 16854341, 14586653, 11902114, 8410543, 0 >>

---------------------------------------------------------------------------
(* Float arithmetic on the integer representations.                        *)

\* floor(r * 2^n / d) for 0 <= r < d < 2^30, by binary long division; q is the
\* quotient so far.
RECURSIVE LongDiv(_, _, _, _)
LongDiv(q, r, d, n) ==
    IF n = 0 THEN q
    ELSE IF 2 * r >= d THEN LongDiv(2 * q + 1, 2 * r - d, d, n - 1)
         ELSE LongDiv(2 * q, 2 * r, d, n - 1)

\* floor(a * b / 2^30) for 0 <= a, b <= 2^30, on 15-bit halves.
MulShift(a, b) ==
    LET a1 == a \div 2^15
        a0 == a % 2^15
        b1 == b \div 2^15
        b0 == b % 2^15
    IN  a1 * b1 + ((a1 * b0 + a0 * b1 + ((a0 * b0) \div 2^15)) \div 2^15)

\* 1.0 in Q30.
One == 2^30

\* int(v * c) for a Q30 float v in [0, 1] and an integer factor c < 2^15:
\* int() truncates toward zero, and the product is not negative.
IntOfProduct(v, c) == MulShift(v, c)

\* int(round(t * 2**bits)) for an angle t held as floor(t * 2^26): round() of a
\* float rounds to the nearest integer, a tie to the even one.
RoundScaled(t, bits) ==
    LET unit == 2^(26 - bits)
        q == t \div unit
        r == t % unit
    IN  IF 2 * r > unit \/ (2 * r = unit /\ q % 2 = 1) THEN q + 1 ELSE q

Max(a, b) == IF a >= b THEN a ELSE b
Min(a, b) == IF a <= b THEN a ELSE b

---------------------------------------------------------------------------
(* lut_gen.py: sigmoid, sigmoid_derivative and the loop body's arithmetic. *)

\* Which return statement of sigmoid(x) is taken.
SigmoidBranch(xg) ==
    IF xg < SatLow * XScale THEN "low"
    ELSE IF xg > SatHigh * XScale THEN "high"
    ELSE "exp"

\* sigmoid with both saturation tests inclusive (<=, >=).
sigmoidInclusive(xg) ==
    IF xg <= SatLow * XScale THEN 0
    ELSE IF xg >= SatHigh * XScale THEN One
    ELSE LET e == ExpTab[xg + SatHigh * XScale + 1]
             d == 2^e[2] + e[1]
         IN  LongDiv(0, 2^e[2], d, 30)

\* sigmoid(x), Q30.
sigmoid(xg) ==
    IF xg < SatLow * XScale THEN 0
    ELSE IF xg > SatHigh * XScale THEN One
    ELSE LET e == ExpTab[xg + SatHigh * XScale + 1]
             \* 1.0 + math.exp(-x), over 2^e[2]
             d == 2^e[2] + e[1]
         IN  LongDiv(0, 2^e[2], d, 30)

\* sigmoid_derivative(x), Q30.
sigmoid_derivative(xg) ==
    LET s == sigmoid(xg)
    IN  MulShift(s, One - s)

\* The sample with the step taken twice.
SampleXDoubleStep(n) == min_val * XScale + n * 2 * step

\* x = min_val + i * step, grid units.
SampleX(n) == min_val * XScale + n * step

\* The conversion with round() in place of int(): half a unit added.
Quantize15Rounded(v) == (MulShift(v, 2 * Q15Factor) + 1) \div 2

\* int(sig * 32767.0) and int(sig_d * 32767.0).
Quantize15(v) == IntOfProduct(v, Q15Factor)

\* The packing with the two channels exchanged.
PackSwapped(d, s) == s * 2^PackShift + (d % (PackMask + 1))

\* (sig_d_fixed << 16) | (sig_fixed & 0xFFFF).  The shifted value has its low
\* 16 bits clear and the masked one lies in [0, 2^16), so the OR is their sum
\* (for a negative sig_d_fixed too: Python integers are two's complement of
\* unbounded width).
Pack(d, s) == d * 2^PackShift + (s % (PackMask + 1))

---------------------------------------------------------------------------
(* acos_lut_gen.py: the loop body's arithmetic.                            *)

\* val = (i / 127.5) - 1.0, numerator over 255.
AcosSample(n) == 2 * n - AcosDen

\* val = max(-1.0, min(1.0, val)).
AcosClamp(v) == Max(-AcosDen, Min(AcosDen, v))

\* math.acos(val), Q26.
acos(v) == AcosTab[(v + AcosDen) \div 2 + 1]

\* The conversion with int() alone: truncation.
QuantizeQ13Truncated(t) == t \div 2^(26 - Q13Bits)

\* The conversion with one fractional bit more (2**14).
QuantizeQ14(t) == RoundScaled(t, Q13Bits + 1)

\* int(round(theta_rad * (2**13))).
QuantizeQ13(t) == RoundScaled(t, Q13Bits)

---------------------------------------------------------------------------
(* Formatting: f"{v:04x}" and f"{v:08X}".                                  *)

LowerDigits == << "0", "1", "2", "3", "4", "5", "6", "7",
                  "8", "9", "a", "b", "c", "d", "e", "f" >>
UpperDigits == << "0", "1", "2", "3", "4", "5", "6", "7",
                  "8", "9", "A", "B", "C", "D", "E", "F" >>
HexChars == { LowerDigits[k] : k \in 1..16 } \cup { UpperDigits[k] : k \in 1..16 }

\* The hexadecimal digits of v >= 0, most significant first, no padding.
RECURSIVE HexDigits(_, _)
HexDigits(v, digits) ==
    IF v < 16 THEN << digits[v + 1] >>
    ELSE Append(HexDigits(v \div 16, digits), digits[(v % 16) + 1])

\* s padded on the left with "0" to at least w characters.
RECURSIVE ZeroPad(_, _)
ZeroPad(s, w) == IF Len(s) >= w THEN s ELSE ZeroPad(<< "0" >> \o s, w)

\* The format without zero padding ("x").
FormatHexUnpadded(v, w, digits) ==
    IF v < 0 THEN << "-" >> \o HexDigits(-v, digits) ELSE HexDigits(v, digits)

\* format(v, "0<w>x"): a minus sign for a negative v, counted in the width.
FormatHex(v, w, digits) ==
    IF v < 0 THEN << "-" >> \o ZeroPad(HexDigits(-v, digits), w - 1)
    ELSE ZeroPad(HexDigits(v, digits), w)

\* The argument of one f.write of a record: the digits and the newline.
SigLine(w) == Append(FormatHex(w, SigWidth, UpperDigits), "\n")
AcosLine(w) == Append(FormatHex(w, AcosWidth, LowerDigits), "\n")

---------------------------------------------------------------------------
(* The output file and the messages.                                       *)

\* The three header lines lut_gen.py writes, one f.write each.
Headers ==
  << << "/", "/", " ", "B", "o", "r", "e", "a", "l", " ", "N", "e", "u", "r", "o", "-", "C", "o", "r", "e", " ", "v", "4", ".", "0", " ", "S", "i", "g", "m", "o", "i", "d", "/", "D", "e", "r", "i", "v", "a", "t", "i", "v", "e", " ", "L", "U", "T", "\n" >>,
     << "/", "/", " ", "F", "o", "r", "m", "a", "t", ":", " ", "3", "2", "-", "b", "i", "t", " ", "h", "e", "x", " ", "(", "B", "i", "t", "s", " ", "[", "3", "1", ":", "1", "6", "]", " ", "=", " ", "D", "e", "r", "i", "v", "a", "t", "i", "v", "e", ",", " ", "[", "1", "5", ":", "0", "]", " ", "=", " ", "S", "i", "g", "m", "o", "i", "d", ")", "\n" >>,
     << "/", "/", " ", "V", "a", "l", "u", "e", " ", "m", "a", "p", "p", "e", "d", " ", "u", "s", "i", "n", "g", " ", "Q", "0", ".", "1", "5", " ", "F", "i", "x", "e", "d", "-", "P", "o", "i", "n", "t", " ", "n", "o", "t", "a", "t", "i", "o", "n", ".", "\n" >> >>

\* Whether a line of the file is a comment line: it begins with "//".
IsComment(line) == Len(line) >= 2 /\ line[1] = "/" /\ line[2] = "/"

\* The data records of the file: its lines that are no comment lines, in order.
DataRecords(lines) == SelectSeq(lines, LAMBDA l : ~IsComment(l))

\* An iteration that skips every other index.
NextIndexSkipping(k) == k + 2

\* The interpreter's range(n) iteration: after index k comes k + 1, and the
\* loop is left once the index reaches n.
NextIndex(k) == k + 1
LoopDone(k, n) == k >= n

\* Where the script goes once the file is open.
AfterOpen == IF gen = "sigmoid" THEN "header" ELSE "loop"

\* What the process does with an exception raised inside the with statement
\* (or by open).  acos_lut_gen.py: the except clause prints "Error: <cause>" and
\* calls sys.exit(1).  lut_gen.py: nothing catches it, the interpreter prints
\* the traceback, which ends with the exception, and exits with status 1.
ExitCodeOnError == 1
HandlerStdout(cause) ==
    IF gen = "acos" THEN Append(stdout, [kind |-> "error", cause |-> cause])
    ELSE stdout
HandlerStderr(cause) ==
    IF gen = "acos" THEN stderr
    ELSE Append(stderr, [kind |-> "traceback", cause |-> cause])

\* A file opened without a with statement: an exception leaves it open.
LeftOpen(file) == file

\* The with statement's exit on an exception closes the file it opened.
ClosedByWith(file) ==
    IF file.state = "open" THEN [file EXCEPT !.state = "closed"] ELSE file

\* An except clause that prints the cause and lets the script end normally.
RaiseWithoutExit(cause) ==
    /\ f' = ClosedByWith(f)
    /\ stdout' = HandlerStdout(cause)
    /\ stderr' = HandlerStderr(cause)
    /\ exit_status' = {0}
    /\ pc' = "exited"

\* An exception propagates: the file is closed, the cause reported, the
\* process ended.
Raise(cause) ==
    /\ f' = ClosedByWith(f)
    /\ stdout' = HandlerStdout(cause)
    /\ stderr' = HandlerStderr(cause)
    /\ exit_status' = {ExitCodeOnError}
    /\ pc' = "exited"

---------------------------------------------------------------------------
(* The scripts, one action per step.                                       *)

Locals == << x, sig_fixed, sig_d_fixed, val, acos_val, theta_q13 >>

InitLocals ==
    /\ i = 0
    /\ x = 0
    /\ sig_fixed = 0
    /\ sig_d_fixed = 0
    /\ val = 0
    /\ acos_val = 0
    /\ theta_q13 = 0

InitProcess ==
    /\ f = [state |-> "unopened", lines |-> << >>]
    /\ stdout = << >>
    /\ stderr = << >>
    /\ exit_status = {}

Init ==
    /\ gen \in {"sigmoid", "acos"}
    /\ pc = IF gen = "sigmoid" THEN "banner" ELSE "open"
    /\ InitLocals
    /\ InitProcess

\* lut_gen.py line 37: print("Generating LUT: ...").
PrintBanner ==
    /\ pc = "banner"
    /\ stdout' = Append(stdout, [kind |-> "banner", cause |-> "none"])
    /\ pc' = "open"
    /\ UNCHANGED << gen, i, Locals, f, stderr, exit_status >>

\* open(output_file, "w") succeeds: the file exists and is empty.
Open ==
    /\ pc = "open"
    /\ f' = [state |-> "open", lines |-> << >>]
    /\ pc' = AfterOpen
    /\ UNCHANGED << gen, i, Locals, stdout, stderr, exit_status >>

\* open(output_file, "w") raises OSError.
OpenFail ==
    /\ pc = "open"
    /\ Raise("open")
    /\ UNCHANGED << gen, i, Locals >>

\* lut_gen.py lines 41-43: the next header write.
WriteHeader ==
    /\ pc = "header"
    /\ f' = [f EXCEPT !.lines = Append(@, Headers[Len(f.lines) + 1])]
    /\ pc' = IF Len(f.lines) + 1 = Len(Headers) THEN "loop" ELSE "header"
    /\ UNCHANGED << gen, i, Locals, stdout, stderr, exit_status >>

\* lut_gen.py lines 45-58: one pass of the loop body, or the end of the loop.
SigmoidIterate ==
    /\ pc = "loop"
    /\ gen = "sigmoid"
    /\ IF LoopDone(i, num_entries)
       THEN /\ pc' = "close"
            /\ UNCHANGED << i, Locals, f >>
       ELSE LET xn == SampleX(i)
                sf == Quantize15(sigmoid(xn))
                sd == Quantize15(sigmoid_derivative(xn))
                w  == Pack(sd, sf)
            IN  /\ x' = xn
                /\ sig_fixed' = sf
                /\ sig_d_fixed' = sd
                /\ val' = w
                /\ f' = [f EXCEPT !.lines = Append(@, SigLine(w))]
                /\ i' = NextIndex(i)
                /\ pc' = "loop"
                /\ UNCHANGED << acos_val, theta_q13 >>
    /\ UNCHANGED << gen, stdout, stderr, exit_status >>

\* acos_lut_gen.py lines 9-21: one pass of the loop body, or the end of the loop.
AcosIterate ==
    /\ pc = "loop"
    /\ gen = "acos"
    /\ IF LoopDone(i, acos_entries)
       THEN /\ pc' = "close"
            /\ UNCHANGED << i, Locals, f >>
       ELSE LET v == AcosClamp(AcosSample(i))
                q == QuantizeQ13(acos(v))
            IN  /\ acos_val' = v
                /\ theta_q13' = q
                /\ f' = [f EXCEPT !.lines = Append(@, AcosLine(q))]
                /\ i' = NextIndex(i)
                /\ pc' = "loop"
                /\ UNCHANGED << x, sig_fixed, sig_d_fixed, val >>
    /\ UNCHANGED << gen, stdout, stderr, exit_status >>

\* An f.write raises OSError: nothing is appended by the failing call.
WriteFail ==
    /\ pc \in {"header", "loop"}
    /\ \/ pc = "header"
       \/ gen = "sigmoid" /\ ~LoopDone(i, num_entries)
       \/ gen = "acos" /\ ~LoopDone(i, acos_entries)
    /\ Raise("write")
    /\ UNCHANGED << gen, i, Locals >>

\* The with statement's normal exit: the file is flushed and closed.
Close ==
    /\ pc = "close"
    /\ f' = [f EXCEPT !.state = "closed"]
    /\ pc' = "success"
    /\ UNCHANGED << gen, i, Locals, stdout, stderr, exit_status >>

\* The flush of the with statement's normal exit raises OSError (a buffered
\* write that fails only now); the file object is closed all the same.
CloseFail ==
    /\ pc = "close"
    /\ Raise("write")
    /\ UNCHANGED << gen, i, Locals >>

\* print("Successfully wrote ..."), and the script ends with status 0.
PrintSuccess ==
    /\ pc = "success"
    /\ stdout' = Append(stdout, [kind |-> "success", cause |-> "none"])
    /\ exit_status' = {0}
    /\ pc' = "exited"
    /\ UNCHANGED << gen, i, Locals, f, stderr >>

Next ==
    \/ PrintBanner
    \/ Open
    \/ OpenFail
    \/ WriteHeader
    \/ SigmoidIterate
    \/ AcosIterate
    \/ WriteFail
    \/ Close
    \/ CloseFail
    \/ PrintSuccess

Spec == Init /\ [][Next]_vars

---------------------------------------------------------------------------
(* The evaluator and the quantizer as pure functions: lines 47-52 of       *)
(* lut_gen.py applied to any grid input in -XBound .. XBound.              *)

EvalInit ==
    /\ gen = "sigmoid"
    /\ pc = "eval"
    /\ x \in -XBound .. XBound
    /\ i = 0
    /\ sig_fixed = 0
    /\ sig_d_fixed = 0
    /\ val = 0
    /\ acos_val = 0
    /\ theta_q13 = 0
    /\ InitProcess

Evaluate ==
    /\ pc = "eval"
    /\ sig_fixed' = Quantize15(sigmoid(x))
    /\ sig_d_fixed' = Quantize15(sigmoid_derivative(x))
    /\ pc' = "evaluated"
    /\ UNCHANGED << gen, i, x, val, acos_val, theta_q13, f, stdout, stderr,
                    exit_status >>

EvalNext == Evaluate

EvalSpec == EvalInit /\ [][EvalNext]_vars

---------------------------------------------------------------------------
(* The packing step as a pure function: line 55 of lut_gen.py applied to   *)
(* pairs of channel values.                                                *)

\* The largest value of a Q0.15 channel.
Q15Max == 2^15 - 1

\* The channel values tried: the small ones, the two of the packing example
\* (0x1234, 0x5678) and the largest.
ChanSamples == (0 .. ChanBound) \cup {4660, 22136, Q15Max}

PackInit ==
    /\ gen = "sigmoid"
    /\ pc = "pack"
    /\ sig_fixed \in ChanSamples
    /\ sig_d_fixed \in ChanSamples
    /\ i = 0
    /\ x = 0
    /\ val = 0
    /\ acos_val = 0
    /\ theta_q13 = 0
    /\ InitProcess

PackStep ==
    /\ pc = "pack"
    /\ val' = Pack(sig_d_fixed, sig_fixed)
    /\ pc' = "packed"
    /\ UNCHANGED << gen, i, x, sig_fixed, sig_d_fixed, acos_val, theta_q13, f,
                    stdout, stderr, exit_status >>

PackNext == PackStep

PackSpec == PackInit /\ [][PackNext]_vars

---------------------------------------------------------------------------
(* The table each script is to emit: the record of every index.            *)

\* lut_gen.py lines 46-58 for index n: the line written.
SigRecord(n) ==
    LET xn == SampleX(n)
    IN  SigLine(Pack(Quantize15(sigmoid_derivative(xn)), Quantize15(sigmoid(xn))))

\* acos_lut_gen.py lines 11-21 for index n: the line written.
AcosRecord(n) == AcosLine(QuantizeQ13(acos(AcosClamp(AcosSample(n)))))

SigTable == [n \in 0 .. num_entries - 1 |-> SigRecord(n)]
AcosTable == [n \in 0 .. acos_entries - 1 |-> AcosRecord(n)]

\* The number of entries of the running script's table, and its records.
EntryCount == IF gen = "sigmoid" THEN num_entries ELSE acos_entries
RecordOf(n) == IF gen = "sigmoid" THEN SigTable[n] ELSE AcosTable[n]

Succeeded == exit_status = {0}
Failed == exit_status = {ExitCodeOnError}

---------------------------------------------------------------------------
(* C1 *)

\* C1: a run that ends without an I/O failure has emitted exactly N data
\* records (1024 for the sigmoid table, 256 for the arccosine table), the k-th
\* being the record of index k-1; at every moment the data records written so
\* far are the records of indices 0, 1, ... in order, and the "//" lines are
\* not among them.
C1_RecordsInIndexOrder ==
    LET recs == DataRecords(f.lines)
    IN  /\ Len(recs) <= EntryCount
        /\ \A k \in 1 .. Len(recs) : recs[k] = RecordOf(k - 1)
        /\ Succeeded => Len(recs) = EntryCount
        /\ gen = "sigmoid" => Len(f.lines) - Len(recs) <= Len(Headers)

\* The sigmoid run has ended with status 0, its 3 header lines and 1024 records
\* in the file.
C1_Witness ==
    /\ gen = "sigmoid"
    /\ Succeeded
    /\ Len(f.lines) = num_entries + Len(Headers)
    /\ Len(DataRecords(f.lines)) = num_entries

---------------------------------------------------------------------------
(* C2 *)

\* C2 as stated: after evaluation and Q0.15 quantization, every input
\* x <= -10 gives sigmoid channel 0 and every input x >= 10 gives 0x7FFF.
C2_SaturationInclusive ==
    pc = "evaluated" =>
        /\ x <= SatLow * XScale => sig_fixed = 0
        /\ x >= SatHigh * XScale => sig_fixed = Q15Max

\* C2 amended: every input x < -10 gives sigmoid channel 0 and every input
\* x > 10 gives 0x7FFF; x = -10 and x = 10 themselves are not saturated and
\* give 1 and 32765.
C2_SaturationStrict ==
    pc = "evaluated" =>
        /\ x < SatLow * XScale => sig_fixed = 0
        /\ x > SatHigh * XScale => sig_fixed = Q15Max
        /\ x = SatLow * XScale => sig_fixed = 1
        /\ x = SatHigh * XScale => sig_fixed = 32765

\* An input below -10 has been evaluated and quantized to 0.
C2_Witness ==
    /\ pc = "evaluated"
    /\ x < SatLow * XScale
    /\ sig_fixed = 0

---------------------------------------------------------------------------
(* C3 *)

---------------------------------------------------------------------------
(* C4 *)

---------------------------------------------------------------------------
(* C5 *)

\* The distance |a - b|.
Dist(a, b) == IF a >= b THEN a - b ELSE b - a

---------------------------------------------------------------------------
(* C6 *)

\* A step on which open, a write or the closing flush raises.
FailureStep == OpenFail \/ WriteFail \/ CloseFail

\* The cause has been reported: by the except clause on stdout
\* (acos_lut_gen.py) or by the interpreter's traceback (lut_gen.py).
Reported ==
    \/ \E k \in 1 .. Len(stdout) : stdout[k].kind = "error" /\ stdout[k].cause # "none"
    \/ \E k \in 1 .. Len(stderr) : stderr[k].kind = "traceback" /\ stderr[k].cause # "none"

SuccessPrinted == \E k \in 1 .. Len(stdout) : stdout[k].kind = "success"

\* C6: a failure of open or of a write ends the run at once in a failed state:
\* the cause is reported, the exit status is not 0, the success message is not
\* printed, and from then on nothing more is written or printed.
C6_FailureEndsRun ==
    /\ [][FailureStep => (/\ pc' = "exited"
                          /\ exit_status' # {}
                          /\ 0 \notin exit_status'
                          /\ Reported'
                          /\ f'.lines = f.lines)]_vars
    /\ [](exit_status # {} /\ 0 \notin exit_status => Reported /\ ~SuccessPrinted)
    /\ [][exit_status # {} => UNCHANGED << f, stdout, stderr, exit_status >>]_vars

\* The sigmoid run has failed on a write after some records, with a traceback.
C6_Witness ==
    /\ gen = "sigmoid"
    /\ Failed
    /\ Len(stderr) = 1
    /\ Len(DataRecords(f.lines)) > 0
    /\ ~SuccessPrinted

---------------------------------------------------------------------------
(* C7 *)

\* Whether a line is w hexadecimal digits and a newline.
IsHexRecord(line, w) ==
    /\ Len(line) = w + 1
    /\ \A k \in 1 .. w : line[k] \in HexChars
    /\ line[w + 1] = "\n"

\* C7: every data record is zero-padded hexadecimal of fixed width, 4 digits
\* in the arccosine file and 8 in the sigmoid file, with no sign and no prefix;
\* the words emitted lie in [0, 2^16) and [0, 2^32).
C7_FixedWidthHex ==
    LET recs == DataRecords(f.lines)
    IN  /\ gen = "acos" =>
               /\ \A k \in 1 .. Len(recs) : IsHexRecord(recs[k], AcosWidth)
               /\ theta_q13 >= 0 /\ theta_q13 < 2^16
        /\ gen = "sigmoid" =>
               /\ \A k \in 1 .. Len(recs) : IsHexRecord(recs[k], SigWidth)
               /\ val >= 0 /\ val \div 2^16 < 2^16

\* All 256 arccosine records are in the file, the loop not yet left.
C7_Witness ==
    /\ gen = "acos"
    /\ pc = "loop"
    /\ Len(DataRecords(f.lines)) = acos_entries

---------------------------------------------------------------------------
(* C8 *)

\* Comment lines come only before data records: none follows a data record.
HeadersFirst(lines) ==
    \A k \in 1 .. Len(lines) - 1 : IsComment(lines[k + 1]) => IsComment(lines[k])

\* lines2 is lines1 with one line appended.
OneAppended(lines1, lines2) ==
    /\ Len(lines2) = Len(lines1) + 1
    /\ SubSeq(lines2, 1, Len(lines1)) = lines1

\* C8: the file is opened before anything is written; the header lines come
\* before the first data record; the file grows by one line at a time and only
\* while open; it is closed before the success message is printed and before
\* the run ends, also when the run ends on a failed write.
C8_OutputOrder ==
    /\ [](f.state = "unopened" => f.lines = << >>)
    /\ [](HeadersFirst(f.lines))
    /\ [](gen = "sigmoid" /\ Len(DataRecords(f.lines)) > 0 =>
              SubSeq(f.lines, 1, Len(Headers)) = Headers)
    /\ [][f'.lines # f.lines =>
              f.state = "open" /\ f'.state = "open" /\ OneAppended(f.lines, f'.lines)]_vars
    /\ [](SuccessPrinted => f.state = "closed")
    /\ [](exit_status # {} => f.state # "open")
    /\ [][WriteFail \/ CloseFail => f'.state = "closed"]_vars
    /\ [][f.state = "closed" => f' = f]_vars

\* The arccosine run has failed on a write after some records, the file closed.
C8_Witness ==
    /\ gen = "acos"
    /\ Failed
    /\ f.state = "closed"
    /\ Len(f.lines) > 0

---------------------------------------------------------------------------
(* C9 *)

\* C9: every quantized channel value lies in [0, 32767]: the arccosine Q2.13
\* value and the sigmoid and derivative Q0.15 values; so the 16-bit mask
\* discards no set bit of the sigmoid channel and the shifted derivative
\* channel has no bit above bit 31.
C9_ChannelsBelowSignBit ==
    /\ theta_q13 \in 0 .. Q15Max
    /\ sig_fixed \in 0 .. Q15Max
    /\ sig_d_fixed \in 0 .. Q15Max
    /\ sig_fixed % (PackMask + 1) = sig_fixed
    /\ val \div 2^16 = sig_d_fixed
    /\ val \div 2^16 < 2^16

\* The derivative channel has reached its largest value, 8191 at x = 0.
C9_Witness ==
    /\ gen = "sigmoid"
    /\ x = 0
    /\ sig_d_fixed = 8191
    /\ i > 0

---------------------------------------------------------------------------
(* C10 *)

\* C10: in the sigmoid script the input of index i is -8 + i * (16 / 1024), so
\* -8 <= x < 8 (index 0 gives -8, index 1023 a value below 8), and sigmoid
\* takes neither of its saturation returns.
C10_SamplesInsideRange ==
    gen = "sigmoid" /\ i >= 1 =>
        /\ x * num_entries =
               min_val * XScale * num_entries + (i - 1) * (max_val - min_val) * XScale
        /\ min_val * XScale <= x
        /\ x < max_val * XScale
        /\ i = 1 => x = min_val * XScale
        /\ SigmoidBranch(x) = "exp"
        /\ x >= SatLow * XScale
        /\ x <= SatHigh * XScale

\* The last index, 1023, has been sampled, to 8 - 1/64.
C10_Witness ==
    /\ gen = "sigmoid"
    /\ i = num_entries
    /\ x = max_val * XScale - 1
    /\ pc = "loop"

====
